---------------------------- MODULE Spec2Model ----------------------------
(***************************************************************************)
(* Model of the workforce attendance ETL (src/src/etl/etl_spark.py) and    *)
(* of the exception rule engine (src/src/rules/exception_engine.py).       *)
(*                                                                         *)
(* A DataFrame is a set of rows, a row is a record (column -> value).      *)
(* Timestamps are seconds since 00:00 of day 0, and day 0 is a Monday.     *)
(* A number of hours (worked_hours, overtime_hours) is kept as the number  *)
(* of seconds it is the quotient of: h hours is the value h * 3600.        *)
(* A string that the code takes apart (badge_ids, days_of_week) is a       *)
(* sequence of one-character strings.                                      *)
(***************************************************************************)
EXTENDS Integers, Sequences, FiniteSets, TLC

VARIABLES
    pc,             \* the stage process() has completed
    current_date,   \* F.current_date(): the day the pipeline is run
    employees_df,   \* employee directory
    shifts_df,      \* shift directory
    swaps_df,       \* shift swap records
    attendance_in,  \* the attendance events as load_data returned them
    attendance_df,  \* process()'s attendance_df, reassigned stage by stage
    df_with_next,   \* compute_work_sessions: rows in window order
    sessions_df,    \* process()'s sessions_df
    sessions_final, \* the rows process() writes
    session_in,     \* the dictionary a caller hands to evaluate_session
    exceptions_out, \* the list evaluate_session returned to that caller
    badge_call,     \* the arguments of a call of detect_double_badge_use
    badge_result,   \* what that call returned
    sessions_file,  \* data/processed/work_sessions.csv as the API finds it
    work_sessions_cache,      \* app.py: employee id -> list of sessions
    attendance_events_cache,  \* app.py: the events POST /ingest stored
    response,       \* what the API answered to the last request
    requests        \* the number of requests the API has served

vars == << pc, current_date, employees_df, shifts_df, swaps_df, attendance_in,
           attendance_df, df_with_next, sessions_df, sessions_final,
           session_in, exceptions_out, badge_call, badge_result, sessions_file,
           work_sessions_cache, attendance_events_cache, response, requests >>

\* The variables of the calls of detect_double_badge_use and of the API.
badge_vars == << badge_call, badge_result >>
api_vars == << sessions_file, work_sessions_cache, attendance_events_cache, response, requests >>

---------------------------------------------------------------------------
(* Bounds of the model *)

MaxEvents == 3        \* attendance events in a session-reconstruction run
MaxDay == 6           \* event dates range over days 0..MaxDay
MaxRunDay == 1        \* the pipeline runs on a day in 0..MaxRunDay
MaxShifts == 2        \* shift definitions in the shift directory
MaxIdEvents == 1      \* attendance events in an identity-resolution run
MaxBadgeEvents == 2   \* recent events handed to detect_double_badge_use
MaxFileRows == 2      \* rows of the processed sessions file
MaxRequests == 2      \* requests served after startup

(* Program constants *)

SecondsPerHour == 3600
SecondsPerMinute == 60
SecondsPerDay == 86400
ImputedHours == 8
DaysPerWeek == 7

NULL == 0 - 1          \* SQL NULL / Python None in a numeric or timestamp column
NullStr == "<null>"    \* SQL NULL / Python None in a string column
NullChars == << "<null>" >>  \* SQL NULL in a string column kept as characters

CHECK_IN == "CHECK_IN"
CHECK_OUT == "CHECK_OUT"

---------------------------------------------------------------------------
(* Time *)

\* The timestamp of hh:mm on day d.
TS(d, hh, mm) == d * SecondsPerDay + hh * SecondsPerHour + mm * SecondsPerMinute

\* F.date(ts): the calendar day of a timestamp.
DateOf(ts) == IF ts = NULL THEN NULL ELSE ts \div SecondsPerDay

\* datetime.hour
HourOf(ts) == (ts % SecondsPerDay) \div SecondsPerHour

\* Python's date.weekday(): 0 = Monday ... 6 = Sunday (day 0 is a Monday).
Weekday(d) == d % DaysPerWeek

\* Spark's F.dayofweek: 1 = Sunday, 2 = Monday ... 7 = Saturday.
SparkDayOfWeek(d) == IF d = NULL THEN NULL ELSE ((d + 1) % DaysPerWeek) + 1

---------------------------------------------------------------------------
(* SQL three-valued logic: "T", "F" and "N" (NULL) *)

Eq3(a, b, null) == IF a = null \/ b = null THEN "N" ELSE IF a = b THEN "T" ELSE "F"
Neq3(a, b, null) == IF a = null \/ b = null THEN "N" ELSE IF a # b THEN "T" ELSE "F"
Gt3(a, b) == IF a = NULL \/ b = NULL THEN "N" ELSE IF a > b THEN "T" ELSE "F"
Lt3(a, b) == IF a = NULL \/ b = NULL THEN "N" ELSE IF a < b THEN "T" ELSE "F"
IsNull3(a) == IF a = NULL THEN "T" ELSE "F"
IsNotNull3(a) == IF a = NULL THEN "F" ELSE "T"
Or3(a, b) == IF a = "T" \/ b = "T" THEN "T" ELSE IF a = "F" /\ b = "F" THEN "F" ELSE "N"
And3(a, b) == IF a = "F" \/ b = "F" THEN "F" ELSE IF a = "T" /\ b = "T" THEN "T" ELSE "N"

\* F.coalesce(a, b)
Coalesce(a, b) == IF a # NULL THEN a ELSE b

\* df.withColumn for several columns at once: the columns of extra replace or
\* extend those of row.
WithColumns(row, extra) == extra @@ row

---------------------------------------------------------------------------
(* Strings taken apart by the code *)

RECURSIVE FirstIndex(_, _, _)
FirstIndex(s, ch, i) ==
    IF i > Len(s) THEN 0
    ELSE IF s[i] = ch THEN i
    ELSE FirstIndex(s, ch, i + 1)

\* split(col, ","): the pieces between commas, empty pieces included.
RECURSIVE Split(_)
Split(s) ==
    LET i == FirstIndex(s, ",", 1)
    IN  IF i = 0 THEN << s >>
        ELSE << SubSeq(s, 1, i - 1) >> \o Split(SubSeq(s, i + 1, Len(s)))

\* F.trim: leading and trailing spaces removed.
RECURSIVE Trim(_)
Trim(s) ==
    IF s = << >> THEN s
    ELSE IF Head(s) = " " THEN Trim(Tail(s))
    ELSE IF s[Len(s)] = " " THEN Trim(SubSeq(s, 1, Len(s) - 1))
    ELSE s

Digits == << "0", "1", "2", "3", "4", "5", "6", "7", "8", "9" >>

DigitValue(ch) == CHOOSE v \in 0..9 : Digits[v + 1] = ch

IsDigit(ch) == \E v \in 0..9 : Digits[v + 1] = ch

\* cast(string as int): the value of a run of digits (surrounding spaces
\* ignored), NULL for anything else.
RECURSIVE DigitsValue(_, _)
DigitsValue(s, acc) ==
    IF s = << >> THEN acc
    ELSE DigitsValue(Tail(s), acc * 10 + DigitValue(Head(s)))

CastInt(s) ==
    LET t == Trim(s)
    IN  IF t = << >> \/ \E i \in 1..Len(t) : ~IsDigit(t[i]) THEN NULL
        ELSE DigitsValue(t, 0)

SeqToSet(s) == { s[i] : i \in 1..Len(s) }

---------------------------------------------------------------------------
(* Identity resolution: WorkforceETL.resolve_identity *)

\* badge_mapping: one row per employee and entry of its comma-separated
\* badge list, the entry trimmed. explode() of a NULL list yields no row.
BadgeMapping(emps) ==
    UNION { { [employee_id |-> e.employee_id, badge_id |-> Trim(tok)] :
                tok \in SeqToSet(Split(e.badge_ids)) } :
            e \in { x \in emps : x.badge_ids # NullChars } }

\* phone_mapping: the employees with a phone_id.
PhoneMapping(emps) ==
    { [employee_id |-> e.employee_id, phone_id |-> e.phone_id] :
        e \in { x \in emps : x.phone_id # NullStr } }

\* attendance.join(mapping, on=key, how="left"): the employee ids of the
\* mapping rows with the row's key, NULL alone when none matches (a NULL key
\* matches nothing).
LeftJoinIds(row, mapping, key, null) ==
    LET hits == { m \in mapping : row[key] # null /\ m[key] # null /\ m[key] = row[key] }
    IN  IF hits = {} THEN { NULL } ELSE { m.employee_id : m \in hits }

\* CoalesceIdentity with its arguments the wrong way round: the mapped id
\* takes precedence over the event's own.
CoalesceIdentityMappedFirst(own, mapped) == Coalesce(mapped, own)

\* employee_id <- coalesce(attendance.employee_id, mapping.employee_id)
CoalesceIdentity(own, mapped) == Coalesce(own, mapped)

\* A DataFrame whose rows may repeat: each distinct row with the number of
\* its copies. A frame of distinct rows has one copy of each.
AsBag(rows) == [r \in rows |-> 1]

RECURSIVE SumOver(_, _)
SumOver(f, S) ==
    IF S = {} THEN 0
    ELSE LET x == CHOOSE y \in S : TRUE
         IN  f[x] + SumOver(f, S \ {x})

\* join(mapping, on=key, how="left"), withColumn(employee_id, coalesce(...))
\* and drop(mapping.employee_id): every copy of a row yields one row per
\* mapping row it matches; rows that differ only in the dropped column fall
\* together as copies of one row.
JoinCoalesce(bag, mapping, key, null) ==
    LET Resolved(row, id) == [row EXCEPT !.employee_id = CoalesceIdentity(row.employee_id, id)]
        out == UNION { { Resolved(row, id) : id \in LeftJoinIds(row, mapping, key, null) } :
                       row \in DOMAIN bag }
        copies(r) == [ row \in DOMAIN bag |->
                         bag[row] * Cardinality({ id \in LeftJoinIds(row, mapping, key, null) :
                                                    Resolved(row, id) = r }) ]
    IN  [ r \in out |-> SumOver(copies(r), DOMAIN bag) ]

\* DropDuplicates left out: the copies are kept.
KeepDuplicates(bag) == bag

\* dropDuplicates(): one copy of each distinct row.
DropDuplicates(bag) == [ r \in DOMAIN bag |-> 1 ]

\* One join step of resolve_identity.
JoinResolve(bag, mapping, key, null) == DropDuplicates(JoinCoalesce(bag, mapping, key, null))

\* resolve_identity on a frame given with its copies.
ResolveIdentityBag(bag, emps) ==
    JoinResolve(JoinResolve(bag, BadgeMapping(emps), "badge_id", NullChars),
                PhoneMapping(emps), "phone_id", NullStr)

\* resolve_identity on a frame of distinct rows: the distinct rows it returns.
ResolveIdentity(att, emps) == DOMAIN ResolveIdentityBag(AsBag(att), emps)

\* normalize_timestamps: event_timestamp_utc is a copy of event_timestamp.
NormalizeTimestampsDf(df) ==
    { WithColumns(row, [event_timestamp_utc |-> row.event_timestamp]) : row \in df }

---------------------------------------------------------------------------
(* Shift assignment: WorkforceETL.assign_shifts *)

\* split(days_of_week, ",").cast(array<int>)
DaysArray(shift) ==
    LET toks == Split(shift.days_of_week)
    IN  [i \in 1..Len(toks) |-> CastInt(toks[i])]

\* array_contains(arr, v): NULL for a NULL value, or when v is not found and
\* the array holds a NULL.
ArrayContains3(arr, v) ==
    IF v = NULL THEN "N"
    ELSE IF v \in SeqToSet(arr) THEN "T"
    ELSE IF NULL \in SeqToSet(arr) THEN "N"
    ELSE "F"

\* day_of_week <- F.dayofweek(event_date) - 1
EventDayOfWeek(event_date) ==
    IF event_date = NULL THEN NULL ELSE SparkDayOfWeek(event_date) - 1

\* to_timestamp(concat(current_date, " ", start_time), "yyyy-MM-dd HH:mm")
ShiftStartDatetime(today, shift) == TS(today, shift.start_time[1], shift.start_time[2])

\* ShiftEndDatetime without the midnight-crossing step: the end is left on
\* the start's day.
ShiftEndDatetimeSameDay(today, shift) == TS(today, shift.end_time[1], shift.end_time[2])

\* The same for end_time, a day later when it is before shift_start_datetime.
ShiftEndDatetime(today, shift) ==
    LET end == TS(today, shift.end_time[1], shift.end_time[2])
    IN  IF end < ShiftStartDatetime(today, shift) THEN end + SecondsPerDay ELSE end

\* The join condition: same employee and the event's weekday in days_array.
ShiftMatches(row, shift) ==
    And3(Eq3(row.employee_id, shift.employee_id, NULL),
         ArrayContains3(DaysArray(shift), row.day_of_week)) = "T"

\* The columns of the shift directory that the joined rows carry. The
\* time-of-day and days columns are in the joined rows too; nothing reads them
\* afterwards and the model leaves them to shifts_df.
ShiftColumns(today, shift) ==
    [ shift_id |-> shift.shift_id,
      shift_employee_id |-> shift.employee_id,
      shift_start_datetime |-> ShiftStartDatetime(today, shift),
      shift_end_datetime |-> ShiftEndDatetime(today, shift) ]

NoShiftColumns ==
    [ shift_id |-> NULL, shift_employee_id |-> NULL,
      shift_start_datetime |-> NULL, shift_end_datetime |-> NULL ]

\* The shift definitions that assignment works from. Swaps are loaded and
\* passed in, and the branch that would apply them is empty.
ApplySwaps(shifts, swaps) == shifts

AttendanceWithDate(att) ==
    { WithColumns(row, [ event_date |-> DateOf(row.event_timestamp),
                         day_of_week |-> EventDayOfWeek(DateOf(row.event_timestamp)) ]) :
        row \in att }

\* The left join of the dated events with the shift definitions.
AssignShifts(att, shifts, swaps, today) ==
    UNION { LET hits == { s \in ApplySwaps(shifts, swaps) : ShiftMatches(row, s) }
            IN  IF hits = {} THEN { WithColumns(row, NoShiftColumns) }
                ELSE { WithColumns(row, ShiftColumns(today, s)) : s \in hits } :
            row \in AttendanceWithDate(att) }

\* impute_missing_punches returns its input with the lag columns
\* prev_event_type and prev_timestamp, which nothing reads; the imputed
\* check-outs it computes are not merged back. The model keeps the rows.
ImputeMissingPunches(df) == df

---------------------------------------------------------------------------
(* Session reconstruction: WorkforceETL.compute_work_sessions *)

\* Ascending order of (employee_id, event_timestamp), NULL first.
KeyLeq(r, q) ==
    \/ r.employee_id < q.employee_id
    \/ r.employee_id = q.employee_id /\ r.event_timestamp <= q.event_timestamp

\* The orders a sort by (employee_id, event_timestamp) may leave the rows in:
\* rows with equal keys come out in an order the engine does not fix.
RECURSIVE SortedOrders(_)
SortedOrders(rows) ==
    IF rows = {} THEN { << >> }
    ELSE UNION { { << r >> \o rest : rest \in SortedOrders(rows \ {r}) } :
                 r \in { x \in rows : \A q \in rows : KeyLeq(x, q) } }

\* HasLead over a window that is not partitioned: the next row of the whole
\* sorted frame, whoever it belongs to.
HasLeadAcrossEmployees(ord, i) == i < Len(ord)

\* F.lead(column).over(Window.partitionBy("employee_id").orderBy("event_timestamp")):
\* the column of the next row of the same employee, NULL on the partition's last row.
HasLead(ord, i) == i < Len(ord) /\ ord[i + 1].employee_id = ord[i].employee_id

LeadColumns(ord, i) ==
    IF HasLead(ord, i)
    THEN [ next_event_type |-> ord[i + 1].event_type,
           next_timestamp |-> ord[i + 1].event_timestamp,
           next_employee_id |-> ord[i + 1].employee_id ]
    ELSE [ next_event_type |-> NullStr, next_timestamp |-> NULL, next_employee_id |-> NULL ]

DfWithNext(ord) == [i \in 1..Len(ord) |-> WithColumns(ord[i], LeadColumns(ord, i))]

\* SessionFilter without its condition on the next row: every CHECK_IN is kept.
SessionFilterEveryCheckIn(row) == Eq3(row.event_type, CHECK_IN, NullStr) = "T"

\* SessionFilter without its condition on the row's own event type.
SessionFilterAnyType(row) ==
    Or3(Or3(Eq3(row.next_event_type, CHECK_OUT, NullStr),
            Neq3(row.next_employee_id, row.employee_id, NULL)),
        IsNull3(row.next_timestamp)) = "T"

\* The filter that keeps the rows which become sessions.
SessionFilter(row) ==
    And3(Eq3(row.event_type, CHECK_IN, NullStr),
         Or3(Or3(Eq3(row.next_event_type, CHECK_OUT, NullStr),
                 Neq3(row.next_employee_id, row.employee_id, NULL)),
             IsNull3(row.next_timestamp))) = "T"

\* SessionEnd without the otherwise branch: the next timestamp is taken, with
\* no imputation.
SessionEndNoImputation(row) == row.next_timestamp

\* session_end: the next CHECK_OUT's timestamp, else session_start + 8 hours.
SessionEnd(row) ==
    IF Eq3(row.next_event_type, CHECK_OUT, NullStr) = "T" THEN row.next_timestamp
    ELSE IF row.event_timestamp = NULL THEN NULL
    ELSE row.event_timestamp + ImputedHours * SecondsPerHour

\* WorkedHours with the difference taken the wrong way round.
WorkedHoursReversed(start, end) == IF start = NULL \/ end = NULL THEN NULL ELSE start - end

\* (unix_timestamp(session_end) - unix_timestamp(session_start)) / 3600.0, in seconds
WorkedHours(start, end) == IF start = NULL \/ end = NULL THEN NULL ELSE end - start

\* OvertimeHours without the test session_end > shift_end: the signed
\* difference whenever shift_end is known.
OvertimeHoursSigned(end, shift_end) ==
    IF IsNotNull3(shift_end) = "T" THEN end - shift_end ELSE 0

\* overtime_hours, in seconds
OvertimeHours(end, shift_end) ==
    IF And3(Gt3(end, shift_end), IsNotNull3(shift_end)) = "T" THEN end - shift_end ELSE 0

\* is_partial, a three-valued column
IsPartial(start, end, shift_start, shift_end) ==
    And3(Or3(Gt3(start, shift_start), Lt3(end, shift_end)), IsNotNull3(shift_start))

\* The columns compute_work_sessions adds to a kept row; i is the row's place
\* in the window order, from which monotonically_increasing_id() numbers it.
SessionColumns(row, i) ==
    LET start == row.event_timestamp
        end == SessionEnd(row)
    IN  [ session_start |-> start,
          session_end |-> end,
          worked_hours |-> WorkedHours(start, end),
          shift_start |-> row.shift_start_datetime,
          shift_end |-> row.shift_end_datetime,
          overtime_hours |-> OvertimeHours(end, row.shift_end_datetime),
          is_partial |-> IsPartial(start, end, row.shift_start_datetime, row.shift_end_datetime),
          session_id |-> i,
          session_date |-> DateOf(start) ]

ComputeWorkSessions(dfn) ==
    { WithColumns(dfn[i], SessionColumns(dfn[i], i)) :
        i \in { j \in 1..Len(dfn) : SessionFilter(dfn[j]) } }

---------------------------------------------------------------------------
(* The rule engine: ExceptionEngine.evaluate_session *)

LateCheckinThreshold == 5      \* minutes
EarlyCheckoutThreshold == 5    \* minutes
DoubleBadgeWindow == 5         \* minutes
MidShiftDelay == 30            \* minutes
MinValidHours == 2
MaxValidHours == 16
NightShiftSpanHours == 12
NightStartHour == 20
NightEndHour == 8
ExcessiveOvertimeHours == 4

\* session.get(key, default): the default when the key is absent.
Get(session, key, default) == IF key \in DOMAIN session THEN session[key] ELSE default

\* The Python values a session holds under a timestamp key: None, a
\* datetime (v: its time), pandas' NaT, a string (text: what it spells) or a
\* value of another type.
NoText == [date_sep |-> "", day |-> NULL, sep |-> "", hh |-> NULL, mm |-> NULL, ss |-> NULL]
PyNone == [py |-> "None", v |-> NULL, text |-> NoText]
PyDatetime(t) == [py |-> "datetime", v |-> t, text |-> NoText]
PyNaT == [py |-> "NaT", v |-> NULL, text |-> NoText]
PyInt(n) == [py |-> "int", v |-> n, text |-> NoText]
PyStr(text) == [py |-> "str", v |-> NULL, text |-> text]

\* A string spelling a date (day number d, its parts joined by date_sep), a
\* separator and a time of day, with seconds (ss) or without (ss = NULL).
Text(date_sep, d, sep, hh, mm, ss) ==
    [date_sep |-> date_sep, day |-> d, sep |-> sep, hh |-> hh, mm |-> mm, ss |-> ss]

\* A parsed NaT: a datetime that is no time. It is truthy, and every
\* comparison with it and with a difference from it is false.
NaT == 0 - 2

\* The formats _parse_timestamp tries, in order: '%Y-%m-%d %H:%M:%S',
\* '%Y-%m-%dT%H:%M:%S', '%Y-%m-%d %H:%M'.
ParseFormats ==
    << [sep |-> " ", seconds |-> TRUE],
       [sep |-> "T", seconds |-> TRUE],
       [sep |-> " ", seconds |-> FALSE] >>

\* datetime.strptime(text, fmt): the datetime spelled, NULL for a ValueError
\* (another layout, or a field out of range).
Strptime(text, fmt) ==
    IF /\ text.date_sep = "-"
       /\ text.sep = fmt.sep
       /\ (text.ss # NULL) = fmt.seconds
       /\ text.hh \in 0..23
       /\ text.mm \in 0..59
       /\ text.ss \in {NULL} \cup 0..59
    THEN TS(text.day, text.hh, text.mm) + (IF text.ss = NULL THEN 0 ELSE text.ss)
    ELSE NULL

\* The loop over the formats, from format i on: the first that parses.
RECURSIVE ParseString(_, _)
ParseString(text, i) ==
    IF i > Len(ParseFormats) THEN NULL
    ELSE LET t == Strptime(text, ParseFormats[i])
         IN  IF t # NULL THEN t ELSE ParseString(text, i + 1)

\* _parse_timestamp: None for None, a datetime as it is (NaT is one), a
\* string parsed, None for anything else.
ParseTimestamp(ts) ==
    IF ts.py = "None" THEN NULL
    ELSE IF ts.py = "datetime" THEN ts.v
    ELSE IF ts.py = "NaT" THEN NaT
    ELSE IF ts.py = "str" THEN ParseString(ts.text, 1)
    ELSE NULL

\* An exception: its code and its explanation, the explanation kept as its
\* template (kind) and the quantity formatted into it (NULL when none).
Exception(code, kind, amount) == [code |-> code, kind |-> kind, amount |-> amount]

\* MissingTimestampRule looking at the check-in only.
MissingStartOnly(actual_start, actual_end) == actual_start = NULL

\* if not actual_start or not actual_end
MissingTimestampRule(actual_start, actual_end) == actual_start = NULL \/ actual_end = NULL

\* LateCheckinRule with the grace period exclusive: late from the threshold on.
LateCheckinRuleAtLeast(actual_start, shift_start) ==
    IF shift_start # NULL /\ NaT \notin {actual_start, shift_start}
       /\ actual_start - shift_start >= LateCheckinThreshold * SecondsPerMinute
    THEN << Exception("late_checkin", "late_by", actual_start - shift_start) >>
    ELSE << >>

LateCheckinRule(actual_start, shift_start) ==
    IF shift_start # NULL /\ NaT \notin {actual_start, shift_start}
       /\ actual_start - shift_start > LateCheckinThreshold * SecondsPerMinute
    THEN << Exception("late_checkin", "late_by", actual_start - shift_start) >>
    ELSE << >>

\* EarlyCheckoutRule with the grace period exclusive.
EarlyCheckoutRuleAtLeast(actual_end, shift_end) ==
    IF shift_end # NULL /\ NaT \notin {actual_end, shift_end}
       /\ shift_end - actual_end >= EarlyCheckoutThreshold * SecondsPerMinute
    THEN << Exception("early_checkout", "early_by", shift_end - actual_end) >>
    ELSE << >>

EarlyCheckoutRule(actual_end, shift_end) ==
    IF shift_end # NULL /\ NaT \notin {actual_end, shift_end}
       /\ shift_end - actual_end > EarlyCheckoutThreshold * SecondsPerMinute
    THEN << Exception("early_checkout", "early_by", shift_end - actual_end) >>
    ELSE << >>

\* MidShiftRule firing from a delay of 30 minutes on.
MidShiftRuleAtLeast(actual_start, shift_start) ==
    IF shift_start # NULL /\ actual_start # NULL
       /\ NaT \notin {actual_start, shift_start}
       /\ actual_start > shift_start
       /\ actual_start - shift_start >= MidShiftDelay * SecondsPerMinute
    THEN << Exception("mid_shift_registration", "registered_after", actual_start - shift_start) >>
    ELSE << >>

MidShiftRule(actual_start, shift_start) ==
    IF shift_start # NULL /\ actual_start # NULL
       /\ NaT \notin {actual_start, shift_start}
       /\ actual_start > shift_start
       /\ actual_start - shift_start > MidShiftDelay * SecondsPerMinute
    THEN << Exception("mid_shift_registration", "registered_after", actual_start - shift_start) >>
    ELSE << >>

\* DurationRule with both limits inclusive.
DurationRuleInclusive(worked_hours) ==
    IF worked_hours = NULL THEN << >>
    ELSE IF worked_hours <= MinValidHours * SecondsPerHour
    THEN << Exception("missed_punch", "too_short", worked_hours) >>
    ELSE IF worked_hours >= MaxValidHours * SecondsPerHour
    THEN << Exception("missed_punch", "too_long", worked_hours) >>
    ELSE << >>

\* worked_hours is compared as a float: a NaN (NULL) is neither below 2.0 nor
\* above 16.0.
DurationRule(worked_hours) ==
    IF worked_hours = NULL THEN << >>
    ELSE IF worked_hours < MinValidHours * SecondsPerHour
    THEN << Exception("missed_punch", "too_short", worked_hours) >>
    ELSE IF worked_hours > MaxValidHours * SecondsPerHour
    THEN << Exception("missed_punch", "too_long", worked_hours) >>
    ELSE << >>

NightShiftRule(shift_start, shift_end) ==
    IF shift_start # NULL /\ shift_end # NULL
       /\ NaT \notin {shift_start, shift_end}
       /\ shift_end > shift_start + NightShiftSpanHours * SecondsPerHour
       /\ (HourOf(shift_start) >= NightStartHour \/ HourOf(shift_end) <= NightEndHour)
    THEN << Exception("night_shift_cross", "night_shift", NULL) >>
    ELSE << >>

PartialRule(is_partial) ==
    IF is_partial = "T" THEN << Exception("partial_shift", "partial", NULL) >> ELSE << >>

\* OvertimeRule firing from 4.0 hours on.
OvertimeRuleAtLeast(overtime_hours) ==
    IF overtime_hours >= ExcessiveOvertimeHours * SecondsPerHour
    THEN << Exception("excessive_overtime", "overtime", overtime_hours) >>
    ELSE << >>

\* A NaN (NULL) is not above 4.0.
OvertimeRule(overtime_hours) ==
    IF overtime_hours > ExcessiveOvertimeHours * SecondsPerHour
    THEN << Exception("excessive_overtime", "overtime", overtime_hours) >>
    ELSE << >>

\* What a rule found put in front of the list instead of behind it.
PrependAll(exceptions, found) == found \o exceptions

\* exceptions.append(...) for what a rule found.
AppendAll(exceptions, found) == exceptions \o found

EvaluateSession(session) ==
    LET actual_start == ParseTimestamp(Get(session, "actual_start", PyNone))
        actual_end == ParseTimestamp(Get(session, "actual_end", PyNone))
        shift_start == ParseTimestamp(Get(session, "shift_start", PyNone))
        shift_end == ParseTimestamp(Get(session, "shift_end", PyNone))
        e1 == AppendAll(<< >>, LateCheckinRule(actual_start, shift_start))
        e2 == AppendAll(e1, EarlyCheckoutRule(actual_end, shift_end))
        e3 == AppendAll(e2, MidShiftRule(actual_start, shift_start))
        e4 == AppendAll(e3, DurationRule(Get(session, "worked_hours", 0)))
        e5 == AppendAll(e4, NightShiftRule(shift_start, shift_end))
        e6 == AppendAll(e5, PartialRule(Get(session, "is_partial", "F")))
        e7 == AppendAll(e6, OvertimeRule(Get(session, "overtime_hours", 0)))
    IN  IF MissingTimestampRule(actual_start, actual_end)
        THEN AppendAll(<< >>, << Exception("missed_punch", "missing_timestamp", NULL) >>)
        ELSE e7

\* What detect_double_badge_use does: return None, return the exception
\* naming the event's employee (other) and the given one, or raise the
\* TypeError of comparing None with a datetime.
BadgeOutcome(outcome, code, other, employee) ==
    [outcome |-> outcome, code |-> code, other |-> other, employee |-> employee]

\* The loop of detect_double_badge_use from event i on.
RECURSIVE DetectFrom(_, _, _, _, _)
DetectFrom(events, i, badge_id, timestamp, employee_id) ==
    LET window_start == timestamp - DoubleBadgeWindow * SecondsPerMinute
    IN  IF i > Len(events) THEN BadgeOutcome("None", "", NULL, NULL)
        ELSE IF events[i].badge_id = badge_id /\ events[i].employee_id # employee_id
        THEN LET t == ParseTimestamp(events[i].event_timestamp)
             IN  IF t = NULL THEN BadgeOutcome("TypeError", "", NULL, NULL)
                 ELSE IF t >= window_start
                 THEN BadgeOutcome("return", "double_badge_use", events[i].employee_id, employee_id)
                 ELSE DetectFrom(events, i + 1, badge_id, timestamp, employee_id)
        ELSE DetectFrom(events, i + 1, badge_id, timestamp, employee_id)

DetectDoubleBadgeUse(events, badge_id, timestamp, employee_id) ==
    DetectFrom(events, 1, badge_id, timestamp, employee_id)

---------------------------------------------------------------------------
(* Classification and output: apply_exception_rules and the end of process *)

\* toPandas(): a timestamp column holds a Timestamp (a datetime), NaT where
\* the Spark column is null.
PandasTimestamp(t) == IF t = NULL THEN PyNaT ELSE PyDatetime(t)

ToPandas(row) ==
    [row EXCEPT !.session_start = PandasTimestamp(@),
                !.session_end = PandasTimestamp(@),
                !.shift_start = PandasTimestamp(@),
                !.shift_end = PandasTimestamp(@)]

\* SessionOfRow with the row handed over under the key names evaluate_session
\* reads (actual_start, actual_end).
SessionOfRowRenamed(row) ==
    WithColumns(row, [actual_start |-> row.session_start, actual_end |-> row.session_end])

\* The session apply_exception_rules hands to evaluate_session: the row of
\* sessions_pd itself, with the columns compute_work_sessions gave it.
SessionOfRow(row) == row

\* exception_codes: the codes in order (joined by commas in the code; the
\* empty sequence stands for None). exception_explanations: the code ->
\* explanation dictionary, as the set of its entries.
ExceptionColumns(exceptions) ==
    [ exception_codes |-> [i \in 1..Len(exceptions) |-> exceptions[i].code],
      exception_explanations |->
          { exceptions[i] : i \in { j \in 1..Len(exceptions) :
              \A k \in (j + 1)..Len(exceptions) : exceptions[k].code # exceptions[j].code } } ]

ApplyExceptionRules(sessions) ==
    { WithColumns(row, ExceptionColumns(EvaluateSession(SessionOfRow(ToPandas(row))))) :
        row \in sessions }

\* The final select, with session_start and session_end renamed.
FinalRow(row) ==
    [ session_id |-> row.session_id,
      employee_id |-> row.employee_id,
      shift_id |-> row.shift_id,
      shift_start |-> row.shift_start,
      shift_end |-> row.shift_end,
      actual_start |-> row.session_start,
      actual_end |-> row.session_end,
      worked_hours |-> row.worked_hours,
      overtime_hours |-> row.overtime_hours,
      is_partial |-> row.is_partial,
      exception_codes |-> row.exception_codes,
      exception_explanations |-> row.exception_explanations,
      facility |-> row.facility,
      session_date |-> row.session_date ]

SessionsFinal(sessions) == { FinalRow(row) : row \in sessions }

---------------------------------------------------------------------------
(* The inputs of a run: what load_data returns *)

Event(id, emp, badge, phone, type, ts) ==
    [ event_id |-> id, employee_id |-> emp, badge_id |-> badge, phone_id |-> phone,
      event_type |-> type, event_timestamp |-> ts, facility |-> "HQ" ]

Employee(id, badges, phone) == [employee_id |-> id, badge_ids |-> badges, phone_id |-> phone]

Shift(id, emp, start, end, days) ==
    [ shift_id |-> id, employee_id |-> emp, start_time |-> start, end_time |-> end,
      days_of_week |-> days ]

Swap(e1, e2, s1, s2, d) ==
    [ swap_id |-> 1, employee_id_1 |-> e1, employee_id_2 |-> e2, shift_id_1 |-> s1,
      shift_id_2 |-> s2, swap_date |-> d, status |-> "APPROVED" ]

EmployeeIds == {1, 2}

\* The badge each employee of the fixed directory carries.
BadgeOf(emp) == IF emp = 1 THEN << "A" >> ELSE << "B" >>

FixedEmployees == { Employee(1, << "A" >>, "P1"), Employee(2, << "B" >>, NullStr) }

\* Shift templates after the generator's: (start, end, days_of_week).
MonFri == << "0", ",", "1", ",", "2", ",", "3", ",", "4" >>
ThuSat == << "3", ",", "4", ",", "5" >>
TueThuSat == << "1", ",", "3", ",", "5" >>
SatSun == << "5", ",", "6" >>

ShiftTemplates ==
    << << <<9, 0>>, <<17, 0>>, MonFri >>,
       << <<22, 0>>, <<6, 0>>, ThuSat >>,
       << <<10, 0>>, <<14, 0>>, TueThuSat >>,
       << <<22, 0>>, <<6, 0>>, SatSun >> >>

ShiftUniverse ==
    { Shift((e - 1) * Len(ShiftTemplates) + t, e,
            ShiftTemplates[t][1], ShiftTemplates[t][2], ShiftTemplates[t][3]) :
        <<e, t>> \in EmployeeIds \X (1..Len(ShiftTemplates)) }

\* Employee 1 works 09:00-17:00 Monday to Friday, employee 2 has no shift.
FixedShifts == { s \in ShiftUniverse : s.shift_id = 1 }

\* Employees 1 and 2 swap their first shifts on day 0 or on day 3.
SwapUniverse == { Swap(1, 2, 1, Len(ShiftTemplates) + 2, d) : d \in {0, 3} }

SessionTimes == { TS(0, 9, 0), TS(0, 10, 0), TS(0, 17, 30) }

\* No call of detect_double_badge_use is made.
NoBadgeCall ==
    /\ badge_call = << >>
    /\ badge_result = << >>

\* The API is not running.
ApiDown ==
    /\ sessions_file = << >>
    /\ work_sessions_cache = << >>
    /\ attendance_events_cache = << >>
    /\ response = << >>
    /\ requests = 0

Unstarted ==
    /\ pc = "loaded"
    /\ attendance_df = attendance_in
    /\ df_with_next = << >>
    /\ sessions_df = {}
    /\ sessions_final = {}
    /\ session_in = << >>
    /\ exceptions_out = << >>
    /\ NoBadgeCall
    /\ ApiDown

\* Runs that vary the punches: up to MaxEvents events of two employees.
InitSessions ==
    /\ current_date = 0
    /\ employees_df = FixedEmployees
    /\ shifts_df = FixedShifts
    /\ swaps_df = {}
    /\ \E n \in 1..MaxEvents :
         \E f \in [1..n -> [emp : EmployeeIds, type : {CHECK_IN, CHECK_OUT}, ts : SessionTimes]] :
            attendance_in = { Event(i, f[i].emp, BadgeOf(f[i].emp), NullStr, f[i].type, f[i].ts) :
                                i \in 1..n }
    /\ Unstarted

\* Runs that vary the schedule: one check-in, any shift directory of up to
\* MaxShifts definitions, a run date, at most one swap.
InitShifts ==
    /\ current_date \in 0..MaxRunDay
    /\ employees_df = FixedEmployees
    /\ shifts_df \in { S \in SUBSET ShiftUniverse : Cardinality(S) <= MaxShifts }
    /\ swaps_df \in { {} } \cup { {sw} : sw \in SwapUniverse }
    /\ \E emp \in EmployeeIds, d \in 0..MaxDay, hh \in {9, 22} :
         attendance_in = { Event(1, emp, BadgeOf(emp), NullStr, CHECK_IN, TS(d, hh, 0)) }
    /\ Unstarted

\* Runs that vary the identity signals: events with or without an employee
\* id, badge and phone, against directories in which a badge or a phone may
\* be shared.
Directories ==
    { { Employee(1, b1, p1), Employee(2, b2, p2) } :
        <<b1, p1, b2, p2>> \in { << "A" >>, << "A", ",", " ", "B" >> } \X { NullStr, "P1" }
                               \X { << "B" >>, << "C" >>, NullChars } \X { NullStr, "P1", "P2" } }

IdentityProtos ==
    [ emp : {NULL} \cup EmployeeIds,
      badge : { NullChars, << "A" >>, << "B" >>, << "C" >> },
      phone : { NullStr, "P1", "P2" } ]

InitIdentity ==
    /\ current_date = 0
    /\ employees_df \in Directories
    /\ shifts_df = FixedShifts
    /\ swaps_df = {}
    /\ \E n \in 1..MaxIdEvents :
         \E f \in [1..n -> IdentityProtos] :
            attendance_in = { Event(i, f[i].emp, f[i].badge, f[i].phone, CHECK_IN, TS(0, 8 + i, 0)) :
                                i \in 1..n }
    /\ Unstarted

Init == InitSessions \/ InitShifts \/ InitIdentity

\* Sessions handed to evaluate_session directly, as the engine's tests do: a
\* dictionary in which any key but employee_id may be absent. The values lie
\* on both sides of every threshold of the rules.
Absent(v) == [has |-> FALSE, val |-> v]
Present(v) == [has |-> TRUE, val |-> v]
OneOf(values, v) == { Absent(v) } \cup { Present(x) : x \in values }
Entry(key, opt) == IF opt.has THEN key :> opt.val ELSE << >>

ActualStartValues ==
    { PyNone, PyInt(0) }
    \cup { PyDatetime(t) : t \in { TS(0, 9, 0), TS(0, 9, 5), TS(0, 9, 5) + 1, TS(0, 9, 30),
                                  TS(0, 9, 30) + 1, TS(0, 10, 15), TS(0, 22, 0) } }
    \cup { PyStr(x) : x \in { Text("-", 0, " ", 10, 15, 0), Text("-", 0, "T", 10, 15, 0),
                              Text("-", 0, " ", 10, 15, NULL), Text("-", 0, "T", 10, 15, NULL),
                              Text("/", 0, " ", 10, 15, 0), Text("-", 0, " ", 25, 15, 0) } }

ActualEndValues ==
    { PyNone }
    \cup { PyDatetime(t) : t \in { TS(0, 15, 30), TS(0, 16, 55) - 1, TS(0, 16, 55),
                                  TS(0, 18, 0), TS(1, 6, 0) } }
    \cup { PyStr(x) : x \in { Text("-", 0, " ", 18, 0, 0), Text("/", 0, " ", 18, 0, 0) } }

\* Shift bounds: none, a day shift, night shifts of 8, 12 and 13 hours, a
\* day shift of 13 hours, bounds given as strings, a start without an end.
ShiftBoundValues ==
    { << PyNone, PyNone >>,
      << PyDatetime(TS(0, 9, 0)), PyDatetime(TS(0, 17, 0)) >>,
      << PyDatetime(TS(0, 22, 0)), PyDatetime(TS(1, 6, 0)) >>,
      << PyDatetime(TS(0, 20, 0)), PyDatetime(TS(1, 8, 0)) >>,
      << PyDatetime(TS(0, 20, 0)), PyDatetime(TS(1, 9, 0)) >>,
      << PyDatetime(TS(0, 19, 0)), PyDatetime(TS(1, 8, 0)) >>,
      << PyDatetime(TS(0, 6, 0)), PyDatetime(TS(0, 19, 0)) >>,
      << PyStr(Text("-", 0, " ", 9, 0, NULL)), PyStr(Text("-", 0, "T", 17, 0, 0)) >>,
      << PyDatetime(TS(0, 9, 0)), PyNone >> }

\* worked_hours and overtime_hours, in seconds; NULL is a NaN.
WorkedHoursValues ==
    { NULL, SecondsPerHour, MinValidHours * SecondsPerHour - 1, MinValidHours * SecondsPerHour,
      MaxValidHours * SecondsPerHour, MaxValidHours * SecondsPerHour + 1 }

OvertimeHoursValues ==
    { NULL, 0, ExcessiveOvertimeHours * SecondsPerHour,
      ExcessiveOvertimeHours * SecondsPerHour + 1 }

SessionDict(start, end, shift, worked, overtime, partial) ==
    [employee_id |-> 123]
    @@ Entry("actual_start", start) @@ Entry("actual_end", end)
    @@ Entry("shift_start", [has |-> shift.has, val |-> shift.val[1]])
    @@ Entry("shift_end", [has |-> shift.has, val |-> shift.val[2]])
    @@ Entry("worked_hours", worked) @@ Entry("overtime_hours", overtime)
    @@ Entry("is_partial", partial)

InitRules ==
    /\ pc = "session"
    /\ current_date = 0
    /\ employees_df = {}
    /\ shifts_df = {}
    /\ swaps_df = {}
    /\ attendance_in = {}
    /\ attendance_df = {}
    /\ df_with_next = << >>
    /\ sessions_df = {}
    /\ sessions_final = {}
    /\ \E start \in OneOf(ActualStartValues, PyNone), end \in OneOf(ActualEndValues, PyNone),
          shift \in OneOf(ShiftBoundValues, << PyNone, PyNone >>),
          worked \in OneOf(WorkedHoursValues, 0), overtime \in OneOf(OvertimeHoursValues, 0),
          partial \in OneOf({"T", "F"}, "F") :
            session_in = SessionDict(start, end, shift, worked, overtime, partial)
    /\ exceptions_out = << >>
    /\ NoBadgeCall
    /\ ApiDown

---------------------------------------------------------------------------
(* WorkforceETL.process, stage by stage *)

ResolveIdentityStep ==
    /\ pc = "loaded"
    /\ attendance_df' = ResolveIdentity(attendance_df, employees_df)
    /\ pc' = "resolved"
    /\ UNCHANGED << current_date, employees_df, shifts_df, swaps_df, attendance_in,
                    df_with_next, sessions_df, sessions_final,
                    session_in, exceptions_out, badge_vars, api_vars >>

NormalizeTimestampsStep ==
    /\ pc = "resolved"
    /\ attendance_df' = NormalizeTimestampsDf(attendance_df)
    /\ pc' = "normalized"
    /\ UNCHANGED << current_date, employees_df, shifts_df, swaps_df, attendance_in,
                    df_with_next, sessions_df, sessions_final,
                    session_in, exceptions_out, badge_vars, api_vars >>

AssignShiftsStep ==
    /\ pc = "normalized"
    /\ attendance_df' = AssignShifts(attendance_df, shifts_df, swaps_df, current_date)
    /\ pc' = "shifted"
    /\ UNCHANGED << current_date, employees_df, shifts_df, swaps_df, attendance_in,
                    df_with_next, sessions_df, sessions_final,
                    session_in, exceptions_out, badge_vars, api_vars >>

ImputeMissingPunchesStep ==
    /\ pc = "shifted"
    /\ attendance_df' = ImputeMissingPunches(attendance_df)
    /\ pc' = "imputed"
    /\ UNCHANGED << current_date, employees_df, shifts_df, swaps_df, attendance_in,
                    df_with_next, sessions_df, sessions_final,
                    session_in, exceptions_out, badge_vars, api_vars >>

ComputeWorkSessionsStep ==
    /\ pc = "imputed"
    /\ \E ord \in SortedOrders(attendance_df) :
          /\ df_with_next' = DfWithNext(ord)
          /\ sessions_df' = ComputeWorkSessions(DfWithNext(ord))
    /\ pc' = "sessions"
    /\ UNCHANGED << current_date, employees_df, shifts_df, swaps_df, attendance_in,
                    attendance_df, sessions_final,
                    session_in, exceptions_out, badge_vars, api_vars >>

ApplyExceptionRulesStep ==
    /\ pc = "sessions"
    /\ sessions_df' = ApplyExceptionRules(sessions_df)
    /\ pc' = "classified"
    /\ UNCHANGED << current_date, employees_df, shifts_df, swaps_df, attendance_in,
                    attendance_df, df_with_next, sessions_final,
                    session_in, exceptions_out, badge_vars, api_vars >>

WriteOutputStep ==
    /\ pc = "classified"
    /\ sessions_final' = SessionsFinal(sessions_df)
    /\ pc' = "done"
    /\ UNCHANGED << current_date, employees_df, shifts_df, swaps_df, attendance_in,
                    attendance_df, df_with_next, sessions_df,
                    session_in, exceptions_out, badge_vars, api_vars >>

Next ==
    \/ ResolveIdentityStep
    \/ NormalizeTimestampsStep
    \/ AssignShiftsStep
    \/ ImputeMissingPunchesStep
    \/ ComputeWorkSessionsStep
    \/ ApplyExceptionRulesStep
    \/ WriteOutputStep

\* The pipeline is not run.
NoRun ==
    /\ current_date = 0
    /\ employees_df = {}
    /\ shifts_df = {}
    /\ swaps_df = {}
    /\ attendance_in = {}
    /\ attendance_df = {}
    /\ df_with_next = << >>
    /\ sessions_df = {}
    /\ sessions_final = {}
    /\ session_in = << >>
    /\ exceptions_out = << >>

\* Calls of detect_double_badge_use for the punch of employee 7 on badge B1
\* at 10:03, against up to MaxBadgeEvents recent events of badges B1 and B2
\* whose timestamps lie before, on and after both ends of the 5-minute window.
BadgeEventTimestamps ==
    { PyDatetime(t) : t \in { TS(0, 9, 58) - 1, TS(0, 9, 58), TS(0, 10, 0), TS(0, 10, 8),
                              TS(0, 10, 8) + 1, TS(0, 11, 0) } }
    \cup { PyStr(Text("-", 0, " ", 10, 0, 0)), PyStr(Text("/", 0, " ", 10, 0, 0)) }

BadgeEvents ==
    [ badge_id : { "B1", "B2" }, employee_id : { 5, 7, 9 }, event_timestamp : BadgeEventTimestamps ]

InitBadge ==
    /\ pc = "badge_call"
    /\ NoRun
    /\ ApiDown
    /\ \E n \in 1..MaxBadgeEvents : \E events \in [1..n -> BadgeEvents] :
          badge_call = [events |-> events, badge_id |-> "B1", timestamp |-> TS(0, 10, 3),
                        employee_id |-> 7]
    /\ badge_result = << >>

\* A caller of the engine: exceptions = engine.evaluate_session(session).
EvaluateSessionCall ==
    /\ pc = "session"
    /\ exceptions_out' = EvaluateSession(session_in)
    /\ pc' = "evaluated"
    /\ UNCHANGED << current_date, employees_df, shifts_df, swaps_df, attendance_in,
                    attendance_df, df_with_next, sessions_df, sessions_final, session_in,
                    badge_vars, api_vars >>

NextRules == EvaluateSessionCall

\* A caller of the engine: engine.detect_double_badge_use(events, badge_id,
\* timestamp, employee_id).
DetectDoubleBadgeUseCall ==
    /\ pc = "badge_call"
    /\ badge_result' = DetectDoubleBadgeUse(badge_call.events, badge_call.badge_id,
                                            badge_call.timestamp, badge_call.employee_id)
    /\ pc' = "badge_checked"
    /\ UNCHANGED << current_date, employees_df, shifts_df, swaps_df, attendance_in,
                    attendance_df, df_with_next, sessions_df, sessions_final,
                    session_in, exceptions_out, badge_call, api_vars >>

NextBadge == DetectDoubleBadgeUseCall

---------------------------------------------------------------------------
(* The API: work_sessions_cache, its loader and the four handlers *)

\* A cell of the column exception_codes is a sequence of tokens, "," being the
\* separator, which str.split(',') cuts as Split does; pandas reads an empty
\* cell as NaN.
NaNCell == << "<nan>" >>

\* The dict work_sessions_cache, in insertion order of its keys.
CacheKeys(cache) == { cache[i].emp_id : i \in DOMAIN cache }

CacheGet(cache, emp_id) ==
    (CHOOSE i \in DOMAIN cache : cache[i].emp_id = emp_id)

\* The loader never empties the cache: with the first row of an employee it
\* creates the list, and it appends every row of the file.
CacheAppend(cache, emp_id, session) ==
    IF emp_id \notin CacheKeys(cache)
    THEN Append(cache, [emp_id |-> emp_id, sessions |-> << session >>])
    ELSE [cache EXCEPT ![CacheGet(cache, emp_id)].sessions = Append(@, session)]

RECURSIVE LoadRows(_, _, _)
LoadRows(cache, rows, i) ==
    IF i > Len(rows) THEN cache
    ELSE LoadRows(CacheAppend(cache, rows[i].employee_id, rows[i]), rows, i + 1)

LoadWorkSessionsFromFile(cache, file) ==
    IF file.exists THEN LoadRows(cache, file.rows, 1) ELSE cache

\* WorkSession(**session): exception_codes is Optional[str], and NaN is no str.
ConvertsToWorkSession(session) == session.exception_codes # NaNCell

RECURSIVE ConvertSessions(_, _)
ConvertSessions(sessions, i) ==
    IF i > Len(sessions) THEN << >>
    ELSE IF ConvertsToWorkSession(sessions[i])
    THEN << sessions[i] >> \o ConvertSessions(sessions, i + 1)
    ELSE ConvertSessions(sessions, i + 1)

DefaultSessionsLimit == 50
DefaultAlertsLimit == 100

\* Python's list[:limit] for limit >= 0.
Slice(list, limit) == SubSeq(list, 1, IF limit < Len(list) THEN limit ELSE Len(list))

NoFilter == "<none>"

SeverityLevel(code) ==
    IF code \in { << "missed_punch" >>, << "double_badge_use" >> } THEN "high"
    ELSE IF code \in { << "night_shift_cross" >> } THEN "low"
    ELSE "medium"

\* The alerts of one session, in the order they are appended; alert_id is
\* given when the lists are put together. message is not modelled.
RECURSIVE ExceptionAlerts(_, _, _, _, _, _)
ExceptionAlerts(emp_id, session, codes, i, severity, alert_type) ==
    IF i > Len(codes) THEN << >>
    ELSE IF Trim(codes[i]) = << >>
         \/ (severity # NoFilter /\ severity # SeverityLevel(codes[i]))
         \/ (alert_type # NoFilter /\ alert_type # "exception")
    THEN ExceptionAlerts(emp_id, session, codes, i + 1, severity, alert_type)
    ELSE << [employee_id |-> emp_id, session_id |-> session.session_id,
             alert_type |-> "exception", severity |-> SeverityLevel(codes[i]),
             code |-> codes[i], timestamp |-> session.actual_start] >>
         \o ExceptionAlerts(emp_id, session, codes, i + 1, severity, alert_type)

AnomalyAlerts(emp_id, session, alert_type) ==
    IF session.is_anomaly /\ ~(alert_type # NoFilter /\ alert_type # "anomaly")
    THEN << [employee_id |-> emp_id, session_id |-> session.session_id,
             alert_type |-> "anomaly", severity |-> "high",
             code |-> << >>, timestamp |-> session.actual_start] >>
    ELSE << >>

SessionAlerts(emp_id, session, severity, alert_type) ==
    ExceptionAlerts(emp_id, session, Split(session.exception_codes), 1, severity, alert_type)
    \o AnomalyAlerts(emp_id, session, alert_type)

RECURSIVE AlertsOfSessions(_, _, _, _, _)
AlertsOfSessions(emp_id, sessions, k, severity, alert_type) ==
    IF k > Len(sessions) THEN << >>
    ELSE SessionAlerts(emp_id, sessions[k], severity, alert_type)
         \o AlertsOfSessions(emp_id, sessions, k + 1, severity, alert_type)

RECURSIVE AlertsOfCache(_, _, _, _)
AlertsOfCache(cache, i, severity, alert_type) ==
    IF i > Len(cache) THEN << >>
    ELSE AlertsOfSessions(cache[i].emp_id, cache[i].sessions, 1, severity, alert_type)
         \o AlertsOfCache(cache, i + 1, severity, alert_type)

NumberAlerts(alerts) == [ i \in DOMAIN alerts |-> [alert_id |-> i] @@ alerts[i] ]

\* list.sort(key=timestamp, reverse=True): later timestamps first, alerts with
\* equal timestamps in the order they had.
RECURSIVE InsertByTimestamp(_, _)
InsertByTimestamp(sorted, alert) ==
    IF sorted = << >> THEN << alert >>
    ELSE IF sorted[Len(sorted)].timestamp >= alert.timestamp THEN Append(sorted, alert)
    ELSE Append(InsertByTimestamp(SubSeq(sorted, 1, Len(sorted) - 1), alert),
                sorted[Len(sorted)])

RECURSIVE SortByTimestampDesc(_, _)
SortByTimestampDesc(alerts, n) ==
    IF n = 0 THEN << >>
    ELSE InsertByTimestamp(SortByTimestampDesc(alerts, n - 1), alerts[n])

\* exception_codes.split(',') of a NaN raises AttributeError.
RaisesInGetAlerts(cache) ==
    \E i \in DOMAIN cache : \E k \in DOMAIN cache[i].sessions :
        cache[i].sessions[k].exception_codes = NaNCell

Response(op, status, body) == [op |-> op, status |-> status, body |-> body]

\* The files: up to MaxFileRows sessions, numbered as the pipeline numbers
\* them, of employees 1 and 2.
FileCells ==
    { NaNCell, << "missed_punch" >>, << "late_checkin", ",", "night_shift_cross" >>,
      << "overtime", "," >> }

FileRow(session_id) ==
    [ session_id : { session_id }, employee_id : { 1, 2 }, actual_start : { TS(0, 9, 0), TS(1, 9, 0) },
      exception_codes : FileCells, is_anomaly : BOOLEAN ]

Files ==
    { [exists |-> FALSE, rows |-> << >>] }
    \cup { [exists |-> TRUE, rows |-> rows] :
             rows \in UNION { { r \in [1..n -> UNION { FileRow(k) : k \in 1..n }] :
                                  \A k \in 1..n : r[k].session_id = k } : n \in 1..MaxFileRows } }

InitApi ==
    /\ pc = "starting"
    /\ NoRun
    /\ NoBadgeCall
    /\ sessions_file \in Files
    /\ work_sessions_cache = << >>
    /\ attendance_events_cache = << >>
    /\ response = Response("none", 0, << >>)
    /\ requests = 0

\* @app.on_event("startup")
StartupEvent ==
    /\ pc = "starting"
    /\ work_sessions_cache' = LoadWorkSessionsFromFile(work_sessions_cache, sessions_file)
    /\ pc' = "serving"
    /\ UNCHANGED << current_date, employees_df, shifts_df, swaps_df, attendance_in,
                    attendance_df, df_with_next, sessions_df, sessions_final,
                    session_in, exceptions_out, badge_vars, sessions_file,
                    attendance_events_cache, response, requests >>

\* GET /employee/{employee_id}/work_sessions
GetEmployeeSessions(employee_id, limit) ==
    /\ pc = "serving"
    /\ requests < MaxRequests
    /\ requests' = requests + 1
    /\ LET loaded == IF employee_id \notin CacheKeys(work_sessions_cache)
                     THEN LoadWorkSessionsFromFile(work_sessions_cache, sessions_file)
                     ELSE work_sessions_cache
       IN  /\ work_sessions_cache' = loaded
           /\ response' =
                IF employee_id \notin CacheKeys(loaded) THEN Response("sessions", 200, << >>)
                ELSE Response("sessions", 200,
                              ConvertSessions(Slice(loaded[CacheGet(loaded, employee_id)].sessions,
                                                   limit), 1))
    /\ UNCHANGED << pc, current_date, employees_df, shifts_df, swaps_df, attendance_in,
                    attendance_df, df_with_next, sessions_df, sessions_final,
                    session_in, exceptions_out, badge_vars, sessions_file,
                    attendance_events_cache >>

\* POST /ingest
IngestEvent(event) ==
    /\ pc = "serving"
    /\ requests < MaxRequests
    /\ requests' = requests + 1
    /\ IF event.event_type \in { "CHECK_IN", "CHECK_OUT" }
       THEN /\ attendance_events_cache' = Append(attendance_events_cache, event)
            /\ response' = Response("ingest", 200,
                                    << [event_id |-> Len(attendance_events_cache) + 1] >>)
       ELSE /\ attendance_events_cache' = attendance_events_cache
            /\ response' = Response("ingest", 422, << >>)
    /\ UNCHANGED << pc, current_date, employees_df, shifts_df, swaps_df, attendance_in,
                    attendance_df, df_with_next, sessions_df, sessions_final,
                    session_in, exceptions_out, badge_vars, sessions_file,
                    work_sessions_cache >>

\* GET /alerts
GetAlerts(severity, alert_type, limit) ==
    /\ pc = "serving"
    /\ requests < MaxRequests
    /\ requests' = requests + 1
    /\ LET loaded == LoadWorkSessionsFromFile(work_sessions_cache, sessions_file)
           alerts == NumberAlerts(AlertsOfCache(loaded, 1, severity, alert_type))
       IN  /\ work_sessions_cache' = loaded
           /\ response' =
                IF RaisesInGetAlerts(loaded) THEN Response("alerts", 500, << >>)
                ELSE Response("alerts", 200,
                              Slice(SortByTimestampDesc(alerts, Len(alerts)), limit))
    /\ UNCHANGED << pc, current_date, employees_df, shifts_df, swaps_df, attendance_in,
                    attendance_df, df_with_next, sessions_df, sessions_final,
                    session_in, exceptions_out, badge_vars, sessions_file,
                    attendance_events_cache >>

IngestEvents ==
    [ employee_id : { 1 }, event_type : { "CHECK_IN", "CHECK_OUT", "BREAK" } ]

NextApi ==
    \/ StartupEvent
    \/ \E employee_id \in { 1, 2, 3 } : \E limit \in { 1, DefaultSessionsLimit } :
          GetEmployeeSessions(employee_id, limit)
    \/ \E event \in IngestEvents : IngestEvent(event)
    \/ \E severity \in { NoFilter, "high", "medium" } :
       \E alert_type \in { NoFilter, "exception", "anomaly" } :
       \E limit \in { 1, DefaultAlertsLimit } :
          GetAlerts(severity, alert_type, limit)

Spec == Init /\ [][Next]_vars
SpecSessions == InitSessions /\ [][Next]_vars
SpecShifts == InitShifts /\ [][Next]_vars
SpecIdentity == InitIdentity /\ [][Next]_vars
SpecRules == InitRules /\ [][NextRules]_vars
SpecBadge == InitBadge /\ [][NextBadge]_vars
SpecApi == InitApi /\ [][NextApi]_vars

---------------------------------------------------------------------------
(* Properties of session reconstruction *)

SessionsComputed == pc \in {"sessions", "classified", "done"}

\* The places after place i, in window order, of CHECK_OUT rows of the same employee.
CheckOutsAfter(i) ==
    { j \in (i + 1)..Len(df_with_next) :
        /\ df_with_next[j].employee_id = df_with_next[i].employee_id
        /\ df_with_next[j].event_type = CHECK_OUT }

\* Place i holds the last row of its employee.
LastOfEmployee(i) ==
    \A j \in (i + 1)..Len(df_with_next) :
        df_with_next[j].employee_id # df_with_next[i].employee_id

MinOf(S) == CHOOSE x \in S : \A y \in S : x <= y

\* What identifies a session apart from its surrogate session_id.
SessionCore(s) == << s.event_id, s.shift_id, s.employee_id, s.session_start, s.session_end >>

\* C1 (as claimed): compute_work_sessions produces exactly one session for
\* every CHECK_IN row, a CHECK_IN directly followed by another CHECK_IN of
\* the same employee included, and every order the sort may produce yields
\* the same sessions.
C1_OneSessionPerCheckIn ==
    SessionsComputed =>
        /\ \A i \in 1..Len(df_with_next) :
              df_with_next[i].event_type = CHECK_IN
                  => Cardinality({ s \in sessions_df : s.session_id = i }) = 1
        /\ \A ord \in SortedOrders(attendance_df) :
              { SessionCore(s) : s \in ComputeWorkSessions(DfWithNext(ord)) }
                  = { SessionCore(s) : s \in sessions_df }

\* C2: once classified, a session whose CHECK_IN has no CHECK_OUT of the same
\* employee after it (its end imputed 8 hours after its start, worked_hours
\* 8.0) carries missed_punch among its exception codes.
C2_ImputedSessionHasMissedPunch ==
    pc \in {"classified", "done"} =>
        \A s \in sessions_df :
            CheckOutsAfter(s.session_id) = {}
                => /\ s.session_end = s.session_start + ImputedHours * SecondsPerHour
                   /\ s.worked_hours = ImputedHours * SecondsPerHour
                   /\ "missed_punch" \in SeqToSet(s.exception_codes)

C2_Witness ==
    /\ pc = "classified"
    /\ \E s \in sessions_df :
          /\ CheckOutsAfter(s.session_id) = {}
          /\ s.worked_hours = ImputedHours * SecondsPerHour
          /\ s.shift_id = NULL
          /\ s.exception_codes = << "missed_punch" >>

\* C3: a session starts at its CHECK_IN and ends at the timestamp of the
\* first CHECK_OUT of the same employee that follows the CHECK_IN in window
\* order; its end is start + 8 hours only when no such CHECK_OUT follows.
C3_EndsAtNextCheckOut ==
    SessionsComputed =>
        \A s \in sessions_df :
            /\ df_with_next[s.session_id].event_type = CHECK_IN
            /\ s.session_start = df_with_next[s.session_id].event_timestamp
            /\ IF CheckOutsAfter(s.session_id) = {}
               THEN s.session_end = s.session_start + ImputedHours * SecondsPerHour
               ELSE s.session_end
                        = df_with_next[MinOf(CheckOutsAfter(s.session_id))].event_timestamp

C3_Witness ==
    /\ pc = "sessions"
    /\ \E s, t \in sessions_df :
          /\ s.employee_id = t.employee_id
          /\ CheckOutsAfter(s.session_id) # {}
          /\ s.session_end # s.session_start + ImputedHours * SecondsPerHour
          /\ CheckOutsAfter(t.session_id) = {}

\* C4: a CHECK_IN that is the last event of its employee yields a session
\* with actual_end = actual_start + 8 hours and worked_hours = 8.0.
C4_LastCheckInImputed ==
    SessionsComputed =>
        \A i \in 1..Len(df_with_next) :
            (df_with_next[i].event_type = CHECK_IN /\ LastOfEmployee(i))
                => \E s \in sessions_df :
                      /\ s.session_id = i
                      /\ s.session_start = df_with_next[i].event_timestamp
                      /\ s.session_end = s.session_start + ImputedHours * SecondsPerHour
                      /\ s.worked_hours = ImputedHours * SecondsPerHour

C4_Witness ==
    /\ pc = "done"
    /\ \E i \in 1..Len(df_with_next) :
          /\ i > 1
          /\ df_with_next[i].event_type = CHECK_IN
          /\ LastOfEmployee(i)
          /\ \E r \in sessions_final :
                /\ r.session_id = i
                /\ r.actual_end = r.actual_start + ImputedHours * SecondsPerHour

---------------------------------------------------------------------------
(* Properties of shift assignment *)

ShiftsAssigned == pc \in {"shifted", "imputed"}

\* The definition in the shift directory with a given shift_id.
ShiftById(id) == CHOOSE s \in shifts_df : s.shift_id = id

\* end_time < start_time, as times of day
TimeBefore(a, b) == a[1] < b[1] \/ (a[1] = b[1] /\ a[2] < b[2])

\* The weekdays a shift definition lists.
DaysOf(shift) == { CastInt(tok) : tok \in SeqToSet(Split(shift.days_of_week)) }

\* C5 (as claimed): the shift window of every event matched to a shift is
\* built on the event's own date: shift_start_dt = (event_date, start_time),
\* shift_end_dt = (event_date, end_time), a day later when end_time <
\* start_time, whatever the day the pipeline runs on.
C5_WindowOnEventDate ==
    ShiftsAssigned =>
        \A r \in attendance_df :
            r.shift_id # NULL =>
                LET s == ShiftById(r.shift_id)
                    d == DateOf(r.event_timestamp)
                IN  /\ r.shift_start_datetime = TS(d, s.start_time[1], s.start_time[2])
                    /\ r.shift_end_datetime
                         = TS(d, s.end_time[1], s.end_time[2])
                           + (IF TimeBefore(s.end_time, s.start_time) THEN SecondsPerDay ELSE 0)

\* C6: for a shift with end_time < start_time, shift_end_dt is on the day
\* after shift_start_dt's and later than shift_start_dt; for a shift with
\* end_time >= start_time both are on the same day.
C6_MidnightCrossing ==
    ShiftsAssigned =>
        \A r \in attendance_df :
            r.shift_id # NULL =>
                LET s == ShiftById(r.shift_id)
                IN  IF TimeBefore(s.end_time, s.start_time)
                    THEN /\ DateOf(r.shift_end_datetime) = DateOf(r.shift_start_datetime) + 1
                         /\ r.shift_end_datetime > r.shift_start_datetime
                    ELSE DateOf(r.shift_end_datetime) = DateOf(r.shift_start_datetime)

C6_Witness ==
    /\ pc = "shifted"
    /\ \E r, q \in attendance_df :
          /\ r.shift_id # NULL
          /\ TimeBefore(ShiftById(r.shift_id).end_time, ShiftById(r.shift_id).start_time)
          /\ DateOf(r.shift_end_datetime) = current_date + 1
          /\ q.shift_id # NULL
          /\ ~TimeBefore(ShiftById(q.shift_id).end_time, ShiftById(q.shift_id).start_time)

\* |a - b|
Distance(a, b) == IF a >= b THEN a - b ELSE b - a

\* C7 (as claimed): every input event appears exactly once in the output of
\* assign_shifts, and when several shifts of its employee include its
\* weekday it is tagged with one whose shift_start_dt is closest to its
\* timestamp.
C7_OneShiftPerEvent ==
    ShiftsAssigned =>
        \A e \in attendance_in :
            LET rows == { r \in attendance_df : r.event_id = e.event_id }
                candidates == { s \in shifts_df : ShiftMatches(CHOOSE r \in rows : TRUE, s) }
            IN  /\ Cardinality(rows) = 1
                /\ \A r \in rows : \A s \in candidates :
                      Distance(r.shift_start_datetime, e.event_timestamp)
                          <= Distance(ShiftStartDatetime(current_date, s), e.event_timestamp)

\* A swap whose two shifts are in the shift directory, each the shift of the
\* employee the swap names for it.
WellFormedSwap(sw) ==
    /\ \E s \in shifts_df : s.shift_id = sw.shift_id_1 /\ s.employee_id = sw.employee_id_1
    /\ \E s \in shifts_df : s.shift_id = sw.shift_id_2 /\ s.employee_id = sw.employee_id_2

\* C8 (as claimed): when a swap names an employee on the event's date, the
\* shift assigned to that employee's event is the other employee's shift of
\* the swap, not a shift of the employee's own.
C8_SwapSubstitutesShift ==
    ShiftsAssigned =>
        \A r \in attendance_df : \A sw \in swaps_df :
            (WellFormedSwap(sw) /\ sw.swap_date = r.event_date /\ r.shift_id # NULL)
                => /\ r.employee_id = sw.employee_id_1 => r.shift_id = sw.shift_id_2
                   /\ r.employee_id = sw.employee_id_2 => r.shift_id = sw.shift_id_1

\* C9 (as claimed): the weekday index of an event is 0 = Monday ... 6 =
\* Sunday, and the event is matched with exactly those shifts of its
\* employee whose days_of_week contain that weekday.
C9_WeekdayConvention ==
    ShiftsAssigned =>
        \A r \in attendance_df :
            /\ r.day_of_week = Weekday(r.event_date)
            /\ { q.shift_id : q \in { x \in attendance_df : x.event_id = r.event_id } } \ {NULL}
                 = { s.shift_id : s \in { x \in shifts_df :
                                            /\ x.employee_id = r.employee_id
                                            /\ Weekday(r.event_date) \in DaysOf(x) } }

---------------------------------------------------------------------------
(* Properties of identity resolution *)

\* The employees whose badge list contains the event's badge_id.
BadgeOwners(e) ==
    { emp.employee_id : emp \in { x \in employees_df :
        /\ e.badge_id # NullChars
        /\ x.badge_ids # NullChars
        /\ \E tok \in SeqToSet(Split(x.badge_ids)) : Trim(tok) = e.badge_id } }

\* The employees whose phone_id is the event's phone_id.
PhoneOwners(e) ==
    { emp.employee_id : emp \in { x \in employees_df :
        e.phone_id # NullStr /\ x.phone_id = e.phone_id } }

\* The ids strict precedence allows for an event: its own, else a badge
\* owner's, else a phone owner's, else none.
ByPrecedence(e) ==
    IF e.employee_id # NULL THEN { e.employee_id }
    ELSE IF BadgeOwners(e) # {} THEN BadgeOwners(e)
    ELSE IF PhoneOwners(e) # {} THEN PhoneOwners(e)
    ELSE { NULL }

\* C10: resolve_identity gives each event the employee_id chosen by strict
\* precedence: the event's own id if not null, otherwise an employee whose
\* badge list contains its badge_id, otherwise, only if no badge matches, an
\* employee with its phone_id.
C10_ResolutionPrecedence ==
    pc # "loaded" =>
        \A e \in attendance_in :
            LET rows == { r \in attendance_df : r.event_id = e.event_id }
            IN  /\ rows # {}
                /\ \A r \in rows : r.employee_id \in ByPrecedence(e)

C10_Witness ==
    /\ pc = "resolved"
    /\ \E e \in attendance_in :
          /\ e.employee_id = NULL
          /\ BadgeOwners(e) # {}
          /\ PhoneOwners(e) # {}
          /\ BadgeOwners(e) \cap PhoneOwners(e) = {}
          /\ \E r \in attendance_df : r.event_id = e.event_id /\ r.employee_id \in BadgeOwners(e)

\* An event no identity signal resolves: no employee_id of its own, a badge
\* in no employee's list, a phone that is absent or nobody's.
Unresolvable(e) ==
    /\ e.employee_id = NULL
    /\ BadgeOwners(e) = {}
    /\ PhoneOwners(e) = {}

\* C11 (as claimed): an event whose identity cannot be resolved is dropped by
\* resolve_identity: no row of it is left once identity is resolved, so it
\* never reaches session reconstruction and no session is built from it.
C11_UnresolvedDropped ==
    \A e \in attendance_in :
        Unresolvable(e) =>
            /\ pc # "loaded" => \A r \in attendance_df : r.event_id # e.event_id
            /\ \A s \in sessions_df : s.event_id # e.event_id

\* C12: resolve_identity is idempotent: applied to its own output, with the
\* same employee directory, it returns the same rows, one copy of each, with
\* the same employee_id values.
C12_ResolveIdempotent ==
    pc = "resolved" =>
        ResolveIdentityBag(AsBag(attendance_df), employees_df) = AsBag(attendance_df)

\* A resolved event that carries its own employee_id and a badge two
\* employees share: resolving again joins it with both mapping rows.
C12_Witness ==
    /\ pc = "resolved"
    /\ \E r \in attendance_df :
          /\ r.employee_id # NULL
          /\ Cardinality(BadgeOwners(r)) = 2

---------------------------------------------------------------------------
(* Properties of the rule engine *)

Evaluated == pc = "evaluated"

\* The codes evaluate_session returned, in order.
Codes == [ i \in 1..Len(exceptions_out) |-> exceptions_out[i].code ]

Emitted(code) == \E i \in 1..Len(exceptions_out) : Codes[i] = code

\* The time the session holds under a key, NULL when it holds none.
TimeOf(key) == ParseTimestamp(Get(session_in, key, PyNone))

BothPresent == TimeOf("actual_start") # NULL /\ TimeOf("actual_end") # NULL

\* The key is absent from the session, holds None, or holds a string that
\* none of the timestamp formats parses.
AbsentOrUnparseable(key) ==
    \/ key \notin DOMAIN session_in
    \/ session_in[key].py = "None"
    \/ /\ session_in[key].py = "str"
       /\ \A i \in 1..Len(ParseFormats) : Strptime(session_in[key].text, ParseFormats[i]) = NULL

\* C13: if actual_start or actual_end is absent or a string that cannot be
\* parsed, evaluate_session returns exactly one exception, missed_punch with
\* the missing check-in/check-out explanation, whatever the shift bounds,
\* worked_hours, is_partial and overtime_hours are.
C13_MissingTimestampOnly ==
    Evaluated /\ (AbsentOrUnparseable("actual_start") \/ AbsentOrUnparseable("actual_end"))
        => exceptions_out = << [code |-> "missed_punch", kind |-> "missing_timestamp",
                                amount |-> NULL] >>

\* A session whose check-out is an unparseable string and whose other fields
\* would each trigger a rule: late check-in, short duration, partial shift,
\* overtime.
C13_Witness ==
    /\ Evaluated
    /\ TimeOf("actual_start") = TS(0, 10, 15)
    /\ "actual_end" \in DOMAIN session_in
    /\ session_in["actual_end"].py = "str"
    /\ AbsentOrUnparseable("actual_end")
    /\ TimeOf("shift_start") = TS(0, 9, 0)
    /\ Get(session_in, "worked_hours", 0) = SecondsPerHour
    /\ Get(session_in, "is_partial", "F") = "T"
    /\ Get(session_in, "overtime_hours", 0) > ExcessiveOvertimeHours * SecondsPerHour
    /\ Len(exceptions_out) = 1

\* C14: for a session with both timestamps present, late_checkin is emitted
\* if and only if shift_start is known and actual_start is more than 5 minutes
\* after it; exactly 5 minutes late, on time or early does not emit it.
C14_LateCheckinIff ==
    Evaluated /\ BothPresent =>
        (Emitted("late_checkin")
            <=> /\ TimeOf("shift_start") # NULL
                /\ TimeOf("actual_start") - TimeOf("shift_start") > 5 * 60)

\* The shift 09:00-17:00 with a check-in at 10:15 and a check-out at 18:00:
\* late_checkin for 75 minutes, no early_checkout.
C14_Witness ==
    /\ Evaluated
    /\ TimeOf("shift_start") = TS(0, 9, 0)
    /\ TimeOf("shift_end") = TS(0, 17, 0)
    /\ TimeOf("actual_start") = TS(0, 10, 15)
    /\ TimeOf("actual_end") = TS(0, 18, 0)
    /\ \E i \in 1..Len(exceptions_out) :
          exceptions_out[i].code = "late_checkin" /\ exceptions_out[i].amount = 75 * 60
    /\ ~Emitted("early_checkout")

\* C15: for a session with both timestamps present, early_checkout is emitted
\* if and only if shift_end is known and actual_end is more than 5 minutes
\* before it; a session that ends at or after shift_end never gets it.
C15_EarlyCheckoutIff ==
    Evaluated /\ BothPresent =>
        /\ Emitted("early_checkout")
              <=> /\ TimeOf("shift_end") # NULL
                  /\ TimeOf("shift_end") - TimeOf("actual_end") > 5 * 60
        /\ TimeOf("shift_end") # NULL /\ TimeOf("actual_end") >= TimeOf("shift_end")
              => ~Emitted("early_checkout")

\* The shift 09:00-17:00 with a check-out at 15:30: early_checkout for 90
\* minutes.
C15_Witness ==
    /\ Evaluated
    /\ TimeOf("shift_end") = TS(0, 17, 0)
    /\ TimeOf("actual_start") = TS(0, 9, 0)
    /\ TimeOf("actual_end") = TS(0, 15, 30)
    /\ \E i \in 1..Len(exceptions_out) :
          exceptions_out[i].code = "early_checkout" /\ exceptions_out[i].amount = 90 * 60

NightShiftCondition ==
    /\ TimeOf("shift_start") # NULL
    /\ TimeOf("shift_end") # NULL
    /\ TimeOf("shift_end") - TimeOf("shift_start") > 12 * 3600
    /\ (HourOf(TimeOf("shift_start")) >= 20 \/ HourOf(TimeOf("shift_end")) <= 8)

\* overtime_hours of the session, a missing one counting as 0, is above 4.0.
OvertimeAbove4 ==
    /\ "overtime_hours" \in DOMAIN session_in
    /\ session_in["overtime_hours"] # NULL
    /\ session_in["overtime_hours"] > 4 * 3600

\* C17: for a session with both timestamps present (and a worked_hours), the
\* duration missed_punch is emitted if and only if worked_hours is below 2.0
\* or above 16.0, with or without a shift; emitting it does not stop the
\* evaluation: night_shift_cross, partial_shift and excessive_overtime are
\* emitted after it whenever their own conditions hold.
C17_DurationIff ==
    Evaluated /\ BothPresent /\ "worked_hours" \in DOMAIN session_in =>
        LET worked_hours == session_in["worked_hours"]
        IN  /\ Emitted("missed_punch")
                  <=> /\ worked_hours # NULL
                      /\ (worked_hours < 2 * 3600 \/ worked_hours > 16 * 3600)
            /\ \A i \in 1..Len(exceptions_out) :
                  Codes[i] = "missed_punch" =>
                      LET After(code) == \E j \in (i + 1)..Len(exceptions_out) : Codes[j] = code
                      IN  /\ After("night_shift_cross") <=> NightShiftCondition
                          /\ After("partial_shift") <=> Get(session_in, "is_partial", "F") = "T"
                          /\ After("excessive_overtime") <=> OvertimeAbove4

\* A session of one hour without any shift: missed_punch, and after it
\* partial_shift and excessive_overtime.
C17_Witness ==
    /\ Evaluated
    /\ BothPresent
    /\ TimeOf("shift_start") = NULL
    /\ TimeOf("shift_end") = NULL
    /\ Get(session_in, "worked_hours", NULL) = 3600
    /\ Codes = << "missed_punch", "partial_shift", "excessive_overtime" >>

\* C18 (as claimed): on the night shift 22:00 to 06:00 of the next day, with
\* actual_start = shift_start and actual_end = shift_end, the exceptions
\* include night_shift_cross and neither late_checkin nor early_checkout.
C18_NightShiftScenario ==
    (/\ Evaluated
     /\ TimeOf("shift_start") = TS(0, 22, 0)
     /\ TimeOf("shift_end") = TS(1, 6, 0)
     /\ TimeOf("actual_start") = TS(0, 22, 0)
     /\ TimeOf("actual_end") = TS(1, 6, 0))
        => /\ Emitted("night_shift_cross")
           /\ ~Emitted("late_checkin")
           /\ ~Emitted("early_checkout")

\* C19: for a session with both timestamps present, excessive_overtime is
\* emitted if and only if overtime_hours is above 4.0, a missing
\* overtime_hours counting as 0.
C19_ExcessiveOvertimeIff ==
    Evaluated /\ BothPresent => (Emitted("excessive_overtime") <=> OvertimeAbove4)

\* Overtime just above 4 hours is flagged.
C19_Witness ==
    /\ Evaluated
    /\ BothPresent
    /\ OvertimeAbove4
    /\ Emitted("excessive_overtime")

\* The order in which the rules are evaluated.
RuleOrder ==
    << "late_checkin", "early_checkout", "mid_shift_registration", "missed_punch",
       "night_shift_cross", "partial_shift", "excessive_overtime" >>

---------------------------------------------------------------------------
(* Properties of double-badge detection *)

BadgeChecked == pc = "badge_checked"

\* The recent events on the given badge by another employee whose timestamp
\* is within 5 minutes of the given timestamp, before it or after it.
WithinWindow ==
    { i \in 1..Len(badge_call.events) :
        LET e == badge_call.events[i]
            t == ParseTimestamp(e.event_timestamp)
        IN  /\ e.badge_id = badge_call.badge_id
            /\ e.employee_id # badge_call.employee_id
            /\ t # NULL
            /\ t - badge_call.timestamp <= 5 * 60
            /\ badge_call.timestamp - t <= 5 * 60 }

\* Every recent event carries a timestamp that can be read.
AllTimestampsParse ==
    \A i \in 1..Len(badge_call.events) :
        ParseTimestamp(badge_call.events[i].event_timestamp) # NULL

\* C21 (as claimed): whenever the recent events, all with readable
\* timestamps, contain one on the same badge, by a different employee, within
\* 5 minutes of the given timestamp, detect_double_badge_use returns a
\* double_badge_use exception that names the given employee and the employee
\* of such an event.
C21_DoubleBadgeDetected ==
    BadgeChecked /\ AllTimestampsParse /\ WithinWindow # {} =>
        /\ badge_result.outcome = "return"
        /\ badge_result.code = "double_badge_use"
        /\ badge_result.employee = badge_call.employee_id
        /\ \E i \in WithinWindow : badge_result.other = badge_call.events[i].employee_id

\* C29 (as claimed): detect_double_badge_use returns None when no recent
\* event, all with readable timestamps, is on the same badge, by a different
\* employee and within 5 minutes of the given timestamp; an event of another
\* employee more than 5 minutes after the given timestamp does not trigger
\* double_badge_use.
C29_NoDoubleBadgeOutsideWindow ==
    BadgeChecked /\ AllTimestampsParse /\ WithinWindow = {} => badge_result.outcome = "None"

---------------------------------------------------------------------------
(* Properties of the sessions of a whole run *)

\* The employee of the event has no shift that lists the event's weekday
\* (0 = Monday ... 6 = Sunday, as the shift directory counts).
NoShiftOnWeekday(e) ==
    \A sh \in shifts_df :
        sh.employee_id = e.employee_id => Weekday(DateOf(e.event_timestamp)) \notin DaysOf(sh)

\* C22 (as claimed): a check-in of an employee who has no shift for the
\* event's weekday (no swap involved) is still turned into a session, with
\* shift_id, shift_start and shift_end null, overtime_hours = 0 and
\* is_partial = false, and none of late_checkin, early_checkout,
\* mid_shift_registration, night_shift_cross is emitted for it.
C22_UnscheduledSession ==
    SessionsComputed /\ swaps_df = {} =>
        \A e \in attendance_in :
            e.event_type = CHECK_IN /\ NoShiftOnWeekday(e) =>
                /\ \E s \in sessions_df : s.event_id = e.event_id
                /\ \A s \in sessions_df :
                      s.event_id = e.event_id =>
                          /\ s.shift_id = NULL
                          /\ s.shift_start = NULL
                          /\ s.shift_end = NULL
                          /\ s.overtime_hours = 0
                          /\ s.is_partial = "F"
                          /\ pc \in {"classified", "done"} =>
                                \A i \in 1..Len(s.exception_codes) :
                                    s.exception_codes[i] \notin
                                        { "late_checkin", "early_checkout",
                                          "mid_shift_registration", "night_shift_cross" }

\* C23: every session compute_work_sessions produces has actual_end >=
\* actual_start and worked_hours = actual_end - actual_start (hence >= 0),
\* whether its end is a CHECK_OUT or imputed; the rows written keep it.
C23_WorkedHoursInvariant ==
    /\ SessionsComputed =>
          \A s \in sessions_df :
              /\ s.session_end >= s.session_start
              /\ s.worked_hours = s.session_end - s.session_start
              /\ s.worked_hours >= 0
    /\ pc = "done" =>
          \A s \in sessions_final :
              /\ s.actual_end >= s.actual_start
              /\ s.worked_hours = s.actual_end - s.actual_start

\* A run with a session that ends at a CHECK_OUT and a session with an
\* imputed end.
C23_Witness ==
    /\ pc = "done"
    /\ \E s, t \in sessions_df :
          /\ s.next_event_type = CHECK_OUT
          /\ s.worked_hours > 0
          /\ t.next_event_type # CHECK_OUT
          /\ t.worked_hours = ImputedHours * SecondsPerHour

\* max(0, x)
Max0(x) == IF x > 0 THEN x ELSE 0

\* C24: for every session, overtime_hours = max(0, actual_end - shift_end)
\* when shift_end is known and 0 when shift_end is null; it is never negative.
C24_OvertimeFormula ==
    SessionsComputed =>
        \A s \in sessions_df :
            /\ s.overtime_hours
                  = (IF s.shift_end # NULL THEN Max0(s.session_end - s.shift_end) ELSE 0)
            /\ s.overtime_hours >= 0

\* A run with a session that ends after its shift and one that ends before
\* its shift's end.
C24_Witness ==
    /\ SessionsComputed
    /\ \E s, t \in sessions_df :
          /\ s.shift_end # NULL /\ s.session_end > s.shift_end /\ s.overtime_hours > 0
          /\ t.shift_end # NULL /\ t.session_end < t.shift_end /\ t.overtime_hours = 0

\* The rows of one employee among the rows handed to compute_work_sessions.
EventsOf(emp) == { r \in attendance_df : r.employee_id = emp }

\* C25: reconstructing the whole event set gives each employee exactly the
\* sessions obtained from that employee's events alone, and no session takes
\* its end from a row of another employee.
C25_PartitionIndependence ==
    SessionsComputed =>
        /\ \A emp \in { r.employee_id : r \in attendance_df } :
              \E ord \in SortedOrders(EventsOf(emp)) :
                  { SessionCore(s) : s \in ComputeWorkSessions(DfWithNext(ord)) }
                      = { SessionCore(s) : s \in { x \in sessions_df : x.employee_id = emp } }
        /\ \A s \in sessions_df :
              s.next_event_type = CHECK_OUT
                  => df_with_next[s.session_id + 1].employee_id = s.employee_id

\* A run in which the last event of employee 1 is a CHECK_IN and the first
\* event of employee 2, next in the sorted frame, is a CHECK_OUT.
C25_Witness ==
    /\ SessionsComputed
    /\ \E i \in 1..(Len(df_with_next) - 1) :
          /\ df_with_next[i].event_type = CHECK_IN
          /\ df_with_next[i + 1].event_type = CHECK_OUT
          /\ df_with_next[i + 1].employee_id # df_with_next[i].employee_id
          /\ \E s \in sessions_df :
                s.session_id = i /\ s.session_end = s.session_start + ImputedHours * SecondsPerHour

\* C27: a CHECK_OUT that does not directly follow a CHECK_IN of the same
\* employee in the employee's timestamp order ends no session and starts
\* none, and every CHECK_OUT is the end of at most one session.
C27_OrphanCheckOut ==
    SessionsComputed =>
        /\ \A s \in sessions_df : s.event_type = CHECK_IN
        /\ \A j \in 1..Len(df_with_next) :
              df_with_next[j].event_type = CHECK_OUT =>
                  LET endingHere == { s \in sessions_df :
                                        /\ s.session_id = j - 1
                                        /\ s.employee_id = df_with_next[j].employee_id
                                        /\ s.next_event_type = CHECK_OUT
                                        /\ s.session_end = df_with_next[j].event_timestamp }
                      follows == /\ j > 1
                                 /\ df_with_next[j - 1].employee_id = df_with_next[j].employee_id
                                 /\ df_with_next[j - 1].event_type = CHECK_IN
                  IN  /\ Cardinality(endingHere) <= 1
                      /\ ~follows => endingHere = {}
                      /\ \A s \in sessions_df : s.session_id # j

\* A run with two consecutive CHECK_OUTs of one employee after a CHECK_IN:
\* one session, ended by the first CHECK_OUT.
C27_Witness ==
    /\ SessionsComputed
    /\ Len(df_with_next) = 3
    /\ df_with_next[1].event_type = CHECK_IN
    /\ df_with_next[2].event_type = CHECK_OUT
    /\ df_with_next[3].event_type = CHECK_OUT
    /\ df_with_next[3].employee_id = df_with_next[1].employee_id
    /\ Cardinality(sessions_df) = 1

\* C26 (as claimed): in a run of process, a session whose check-in timestamp
\* and end, real or imputed, are both present is not classified by the
\* missing-timestamp rule.
C26_ClassifierSeesTimestamps ==
    pc \in {"classified", "done"} =>
        \A s \in sessions_df :
            s.session_start # NULL /\ s.session_end # NULL =>
                \A x \in s.exception_explanations : x.kind # "missing_timestamp"

---------------------------------------------------------------------------
(* Properties of identity resolution as a frame *)

\* The row is the event with at most its employee_id changed.
SameButEmployee(r, e) == [r EXCEPT !.employee_id = e.employee_id] = e

\* C28 (as claimed): resolve_identity outputs exactly one resolved event for
\* each input event and changes no field other than employee_id, also when
\* the event has no employee_id and its badge is in the lists of two
\* employees or its phone is registered to two employees.
C28_OneRowPerEvent ==
    pc = "resolved" =>
        \A e \in attendance_in :
            /\ Cardinality({ r \in attendance_df : r.event_id = e.event_id }) = 1
            /\ \A r \in attendance_df : r.event_id = e.event_id => SameButEmployee(r, e)

---------------------------------------------------------------------------
(* Properties of the API's session cache *)

\* The list of every employee holds each session_id at most once.
CacheHoldsEachSessionOnce ==
    \A i \in DOMAIN work_sessions_cache :
        \A k, l \in DOMAIN work_sessions_cache[i].sessions :
            work_sessions_cache[i].sessions[k].session_id
                = work_sessions_cache[i].sessions[l].session_id => k = l

\* The alerts of the last response have at most one exception alert per
\* session and exception code.
OneAlertPerSessionAndCode ==
    \A a, b \in DOMAIN response.body :
        /\ response.body[a].alert_type = "exception"
        /\ response.body[b].alert_type = "exception"
        /\ response.body[a].session_id = response.body[b].session_id
        /\ response.body[a].code = response.body[b].code
        => a = b

\* C30 (as claimed): after startup and any sequence of requests, the cache
\* holds each session of the sessions file at most once per employee, and a
\* GET /alerts that answers returns at most one exception alert per session
\* and exception code.
C30_CacheHoldsFileOnce ==
    pc = "serving" =>
        /\ CacheHoldsEachSessionOnce
        /\ (response.op = "alerts" /\ response.status = 200) => OneAlertPerSessionAndCode

====
